---- MODULE Spec2Model ----
(***************************************************************************)
(* The HeliX relay core (src/server/server.py) as a state machine.         *)
(*                                                                         *)
(* One handler (connection_handler) runs per WebSocket connection on a     *)
(* single asyncio event loop.  A step of the model is what one handler     *)
(* does between two suspensions (awaits): code between awaits is atomic.   *)
(* The suspensions after which the handler still touches shared state are  *)
(* modelled as handler positions (pc):                                     *)
(*   "closing_ip"  await websocket.close(...)            line 253          *)
(*   "relaying"    await target_websocket.send(message)  line 462          *)
(*   "closing_rl"  await websocket.close(...)            line 287          *)
(*   "open"        async for message in websocket        line 271          *)
(* A send_json to the handler's own connection that is followed by no      *)
(* further access to shared state is part of the step that issues it.      *)
(*                                                                         *)
(* JSON strings are sequences of one-character strings.  Time is a         *)
(* discrete clock; the limits and windows of config.py are scaled down.    *)
(***************************************************************************)
EXTENDS Integers, Sequences, FiniteSets, TLC

\* ------------------------------------------------------------------ bounds
\* Connection slots; a slot whose handler has returned can carry a new
\* connection (a new websocket object).
NConn == 3
\* The clock runs from 0 to MaxTime.
MaxTime == 2
\* Inbound frames a behaviour delivers in all.
MaxFrames == 5

\* ------------------------------------------------------- config.py (scaled)
MAX_CONNECTIONS_PER_IP == 2
CONNECTION_WINDOW_SECONDS == 2
MAX_MESSAGES_PER_CONNECTION == 2
MESSAGE_WINDOW_SECONDS == 2
\* config.MAX_FILE_SIZE_BYTES, 100 * 1024 * 1024
MAX_FILE_SIZE_BYTES == 104857600

Conns == 1..NConn

\* websocket.remote_address[0] of the connection carried by slot c: odd and
\* even slots connect from two addresses.
remote_address(c) == IF c % 2 = 1 THEN "10.0.0.1" ELSE "10.0.0.2"

IPs == {remote_address(c) : c \in Conns}

\* ------------------------------------------------------------- JSON values
\* A JSON string is a sequence of characters; these two stand for the values
\* that are not strings: a missing key / null, and a list or object.
JNone == <<"<None>">>
JList == <<"<list>">>

IsStr(v) == v # JNone /\ v # JList

IdA == <<"a", "l", "i">>
IdB == <<"b", "o", "b">>
IdC == <<"c", "_", "1">>
\* Two characters: shorter than the grammar allows.
IdShort == <<"a", "b">>

Ids == {IdA, IdB, IdC}

AlphaNum == {"a", "b", "c", "i", "l", "o", "1"}

\* [a-zA-Z0-9][a-zA-Z0-9_-]{2,29} consumes the whole of s.
IdentifierBody(s) ==
    /\ Len(s) >= 3
    /\ Len(s) <= 30
    /\ s[1] \in AlphaNum
    /\ \A i \in 2..Len(s) : s[i] \in AlphaNum \cup {"_", "-"}

\* VALID_IDENTIFIER_REGEX.match(identifier): ^[a-zA-Z0-9][a-zA-Z0-9_-]{2,29}$
\* Without re.MULTILINE, $ matches at the end of the string and also just
\* before a newline that is its last character.
VALID_IDENTIFIER_REGEX(s) ==
    /\ IsStr(s)
    /\ \/ IdentifierBody(s)
       \/ /\ s # <<>>
          /\ s[Len(s)] = "\n"
          /\ IdentifierBody(SubSeq(s, 1, Len(s) - 1))

\* value.strip(): leading and trailing blanks removed.
RECURSIVE LStrip(_)
LStrip(s) == IF s # <<>> /\ Head(s) = " " THEN LStrip(Tail(s)) ELSE s

RECURSIVE RStrip(_)
RStrip(s) ==
    IF s # <<>> /\ s[Len(s)] = " " THEN RStrip(SubSeq(s, 1, Len(s) - 1)) ELSE s

Strip(s) == RStrip(LStrip(s))

\* is_valid_string(value, max_len)
is_valid_string(value, max_len) ==
    IsStr(value) /\ 0 < Len(Strip(value)) /\ Len(Strip(value)) <= max_len

\* ------------------------------------------------------------- dictionaries
Put(d, k, v) == [x \in DOMAIN d \cup {k} |-> IF x = k THEN v ELSE d[x]]

Del(d, k) == [x \in DOMAIN d \ {k} |-> d[x]]

Get(d, k, default) == IF k \in DOMAIN d THEN d[k] ELSE default

EmptyDict == [x \in {} |-> 0]

\* --------------------------------------------------------------- timestamps
\* [t for t in times if current_time - t < window]
Prune(times, current_time, window) ==
    SelectSeq(times, LAMBDA t : current_time - t < window)

\* ------------------------------------------------------------------- frames
\* An inbound text frame.  shape tells how far the structural checks of
\* lines 299-329 let it go; raw distinguishes two byte encodings of the same
\* JSON value (0 is what json.dumps would produce, 1 is any other spelling).
\* fieldsOk says whether the fields its type requires besides targetId and
\* senderId pass their format checks.
Frame(shape, type, identifier, targetId, senderId, fieldsOk, raw) ==
    [shape |-> shape, type |-> type, identifier |-> identifier,
     targetId |-> targetId, senderId |-> senderId, fieldsOk |-> fieldsOk,
     raw |-> raw]

NoFrame == Frame("none", "none", JNone, JNone, JNone, FALSE, 0)

\* Frames that fail a structural check: invalid JSON (303), not an object
\* (309), type or payload missing (316), type not a number (321), payload
\* not an object (326).
MalformedFrames ==
    {Frame(sh, "none", JNone, JNone, JNone, FALSE, 0) :
        sh \in {"badjson", "nondict", "missing", "badtype", "badpayload"}}

\* The identifier the client on slot c wants for itself.
Own(c) == IF c = 1 THEN IdA ELSE IF c = 2 THEN IdB ELSE IdC

\* Registration requests of the client on slot c: for its own identifier,
\* for IdA (which another client may hold), for one the grammar rejects and
\* without an identifier.
RegisterFrames(c) ==
    {Frame("ok", "0", id, JNone, JNone, TRUE, 0) :
        id \in {Own(c), IdA, IdShort, JNone}}

\* Session frames of the client on slot c: accept (2), encrypted message
\* (8), end (9), and 18, a number that is none of the protocol's types; to
\* any identifier or to an empty targetId; signed with its own identifier
\* or with IdA.  Type 8 also comes with a malformed field and in a second
\* byte encoding.
RelayFrames(c) ==
    {Frame("ok", ty, JNone, tg, sn, TRUE, 0) :
        ty \in {"2", "8", "9", "18"}, tg \in Ids \cup {<<>>},
        sn \in {Own(c), IdA}}
    \cup {Frame("ok", "8", JNone, tg, Own(c), FALSE, 0) : tg \in Ids}
    \cup {Frame("ok", "8", JNone, tg, Own(c), TRUE, 1) : tg \in Ids}

\* payload["fileSize"] of a type-12 frame: a JSON number is an int or a float
\* in Python, anything else (a string, null, a missing key) is no number.
FileSize(kind, value) == [kind |-> kind, value |-> value]

\* A FILE_TRANSFER_REQUEST (type 12) with the fields lines 396-408 look at.
FileFrame(targetId, senderId, transferId, fileName, fileSize, fileType) ==
    [shape |-> "ok", type |-> "12", identifier |-> JNone,
     targetId |-> targetId, senderId |-> senderId, fieldsOk |-> TRUE,
     raw |-> 0, transferId |-> transferId, fileName |-> fileName,
     fileSize |-> fileSize, fileType |-> fileType]

TransferId == <<"t", "1">>
FileName == <<"f", ".", "x">>
FileType == <<"b", "i", "n">>
\* A name of blanks only: empty once stripped.
BlankName == <<" ", " ">>

\* The fileSize values of the model: at, just below and just above the
\* configured maximum, negative, a float above the maximum, and no number.
FileSizes ==
    {FileSize("int", MAX_FILE_SIZE_BYTES), FileSize("int", 0),
     FileSize("int", MAX_FILE_SIZE_BYTES + 1), FileSize("int", 0 - 1),
     FileSize("float", MAX_FILE_SIZE_BYTES + 1), FileSize("none", 0)}

\* File transfer requests of the client on slot c: with every fileSize; and,
\* for a fitting and for an oversized fileSize, with one other field wrong:
\* targetId, transferId, fileName, fileType or senderId.
FileFrames(c) ==
    {FileFrame(IdA, Own(c), TransferId, FileName, sz, FileType) :
        sz \in FileSizes}
    \cup {FileFrame(IdB, Own(c), TransferId, FileName, sz, FileType) :
             sz \in {FileSize("int", 0), FileSize("int", MAX_FILE_SIZE_BYTES + 1)}}
    \cup UNION {
            {FileFrame(<<>>, Own(c), TransferId, FileName, sz, FileType),
             FileFrame(IdA, Own(c), JNone, FileName, sz, FileType),
             FileFrame(IdA, Own(c), TransferId, BlankName, sz, FileType),
             FileFrame(IdA, Own(c), TransferId, FileName, sz, JNone),
             FileFrame(IdA, IdShort, TransferId, FileName, sz, FileType)} :
            sz \in {FileSize("int", 0), FileSize("int", MAX_FILE_SIZE_BYTES + 1)}}

FramesOf(c) == MalformedFrames \cup RegisterFrames(c) \cup RelayFrames(c)

\* A binary frame whose bytes are not UTF-8: json.loads(message) raises
\* UnicodeDecodeError, a ValueError that is not a JSONDecodeError (line 302).
UndecodableFrame == Frame("undecodable", "none", JNone, JNone, JNone, FALSE, 0)

\* Frames a careless or hostile client on slot c sends besides the
\* malformed ones: a JSON array as targetId, in a type that has a payload
\* check (8) and in one that has none (18); type 8 with a bad field, with a
\* foreign senderId and with an empty targetId; and a valid accept to each
\* identifier.
HostileFrames(c) ==
    {UndecodableFrame,
     Frame("ok", "18", JNone, JList, Own(c), TRUE, 0),
     Frame("ok", "8", JNone, JList, Own(c), TRUE, 0),
     Frame("ok", "8", JNone, IdA, Own(c), FALSE, 0),
     Frame("ok", "8", JNone, IdA, IdShort, TRUE, 0),
     Frame("ok", "8", JNone, <<>>, Own(c), TRUE, 0)}
    \cup {Frame("ok", "2", JNone, tg, Own(c), TRUE, 0) : tg \in Ids \ {Own(c)}}

\* The frames of a client that never gets past the structural checks.
GateFrames == {Frame("badjson", "none", JNone, JNone, JNone, FALSE, 0)}

\* ---------------------------------------------------------------- envelopes
\* What a step hands to a transport.  from is 0 for an envelope the server
\* builds (send_json) and the sender's slot for a relayed frame, whose bytes
\* are raw.
ServerEnv(to, type, targetId, senderId, identifier, error) ==
    [to |-> to, from |-> 0, type |-> type, targetId |-> targetId,
     senderId |-> senderId, identifier |-> identifier, error |-> error,
     raw |-> NoFrame]

\* The FILE_TRANSFER_ERROR of line 405.
FileErrorEnv(to, transferId, sender_id) ==
    [to |-> to, from |-> 0, type |-> "17", targetId |-> sender_id,
     senderId |-> <<"S", "e", "r", "v", "e", "r">>, identifier |-> JNone,
     error |-> "too_large", raw |-> NoFrame, transferId |-> transferId]

RelayEnv(to, from, message) ==
    [to |-> to, from |-> from, type |-> message.type,
     targetId |-> message.targetId, senderId |-> message.senderId,
     identifier |-> JNone, error |-> "", raw |-> message]

\* -------------------------------------------------------------------- state
VARIABLES
    now,                  \* time.time()
    config_complete,      \* config defines MAX_ENCRYPTED_DATA_LENGTH (line 342)
    pc,                   \* position of each slot's handler
    transport,            \* state of each slot's WebSocket connection
    hlocal,               \* locals a suspended handler resumes with
    CLIENTS,              \* identifier -> connection
    CONNECTIONS,          \* connection -> identifier
    CONNECTION_ATTEMPTS,  \* ip -> timestamps
    MESSAGE_TIMESTAMPS,   \* connection -> timestamps
    ACTIVE_SESSIONS,      \* identifier -> peer identifier
    tasks,                \* send_json tasks created by asyncio.create_task
    sent,                 \* envelopes the last step handed to transports
    paired,               \* history: pairs with a relayed accept, no end since
    accepted,             \* history: per ip, acceptance times still in window
    nframes               \* history: inbound frames delivered so far

vars == <<now, config_complete, pc, transport, hlocal, CLIENTS, CONNECTIONS,
          CONNECTION_ATTEMPTS, MESSAGE_TIMESTAMPS, ACTIVE_SESSIONS, tasks,
          sent, paired, accepted, nframes>>

NoLocal ==
    [valid_attempts |-> <<>>, message |-> NoFrame, sender_id |-> JNone,
     target_websocket |-> 0]

\* Python truthiness of a value used as an identifier.
Truthy(v) == v # JNone /\ v # <<>>

Init ==
    /\ now = 0
    /\ config_complete \in BOOLEAN
    /\ pc = [c \in Conns |-> "new"]
    /\ transport = [c \in Conns |-> "none"]
    /\ hlocal = [c \in Conns |-> NoLocal]
    /\ CLIENTS = EmptyDict
    /\ CONNECTIONS = EmptyDict
    /\ CONNECTION_ATTEMPTS = EmptyDict
    /\ MESSAGE_TIMESTAMPS = EmptyDict
    /\ ACTIVE_SESSIONS = EmptyDict
    /\ tasks = <<>>
    /\ sent = <<>>
    /\ paired = {}
    /\ accepted = [ip \in IPs |-> <<>>]
    /\ nframes = 0

\* ------------------------------------------------------------- validation
\* Types whose payload needs only targetId and senderId (line 356).
ControlTypes == {"1", "3", "7", "9", "10", "11"}

\* Types whose payload has further checked fields (lines 365-433); 12 has
\* its own branch.
FieldTypes == {"2", "4", "5", "6", "8", "13", "14", "15", "16", "17"}

\* sender_id and payload.get("senderId") != sender_id
SenderMismatch(f, sender_id) == Truthy(sender_id) /\ f.senderId # sender_id

\* isinstance(file_size, int)
IsInt(file_size) == file_size.kind = "int"

\* The checks of a type-12 payload that precede the size limit, lines
\* 397-400.
file_request_checked(f) ==
    /\ is_valid_string(f.targetId, 30)
    /\ is_valid_string(f.transferId, 64)
    /\ is_valid_string(f.fileName, 255)
    /\ IsInt(f.fileSize) /\ f.fileSize.value >= 0

\* The branch of line 402 is reached and taken.
file_too_large(f) ==
    file_request_checked(f) /\ f.fileSize.value > MAX_FILE_SIZE_BYTES

\* validation_passed after lines 345-434, for a frame that passed the
\* structural checks.  A type that no branch names is left as valid.
validation_passed(f, sender_id) ==
    CASE f.type = "0" ->
            IsStr(f.identifier) /\ 0 < Len(f.identifier)
                /\ Len(f.identifier) <= 30
      [] f.type \in ControlTypes ->
            is_valid_string(f.targetId, 30) /\ ~SenderMismatch(f, sender_id)
      [] f.type \in FieldTypes ->
            is_valid_string(f.targetId, 30) /\ f.fieldsOk
                /\ ~SenderMismatch(f, sender_id)
      [] f.type = "12" ->
            file_request_checked(f) /\ ~file_too_large(f)
                /\ is_valid_string(f.fileType, 100)
                /\ ~SenderMismatch(f, sender_id)
      [] OTHER -> TRUE

\* What validation itself sends to the sender: the 0.2 of line 353 and the
\* 17 of line 405.
validation_reply(c, f) ==
    IF f.type = "0" /\ ~validation_passed(f, JNone)
    THEN <<ServerEnv(c, "0.2", JNone, JNone, f.identifier, "bad_identifier")>>
    ELSE IF f.type = "12" /\ file_too_large(f)
    THEN <<FileErrorEnv(c, f.transferId, Get(CONNECTIONS, c, JNone))>>
    ELSE <<>>

\* ----------------------------------------------------------- registration
\* As registration_outcome, without the check that the identifier is free.
registration_outcome_no_taken(websocket, identifier) ==
    IF ~VALID_IDENTIFIER_REGEX(identifier) THEN "invalid_format"
    ELSE IF websocket \in DOMAIN CONNECTIONS THEN "already_registered"
    ELSE "ok"

\* As registration_outcome, without the check that the connection holds no
\* identifier yet.
registration_outcome_rebind(websocket, identifier) ==
    IF ~VALID_IDENTIFIER_REGEX(identifier) THEN "invalid_format"
    ELSE IF identifier \in DOMAIN CLIENTS THEN "taken"
    ELSE "ok"

\* handle_registration: the branch taken.
registration_outcome(websocket, identifier) ==
    IF ~VALID_IDENTIFIER_REGEX(identifier) THEN "invalid_format"
    ELSE IF identifier \in DOMAIN CLIENTS THEN "taken"
    ELSE IF websocket \in DOMAIN CONNECTIONS THEN "already_registered"
    ELSE "ok"

\* As handle_registration, with a rejected connection recorded as holding
\* the identifier it asked for.
handle_registration_marking(websocket, identifier) ==
    LET outcome == registration_outcome(websocket, identifier) IN
    IF outcome = "ok"
    THEN /\ CLIENTS' = Put(CLIENTS, identifier, websocket)
         /\ CONNECTIONS' = Put(CONNECTIONS, websocket, identifier)
         /\ sent' = <<ServerEnv(websocket, "0.1", JNone, JNone, identifier, "")>>
    ELSE /\ CLIENTS' = CLIENTS
         /\ CONNECTIONS' = Put(CONNECTIONS, websocket, identifier)
         /\ sent' = <<ServerEnv(websocket, "0.2", JNone, JNone, identifier,
                                outcome)>>

handle_registration(websocket, identifier) ==
    LET outcome == registration_outcome(websocket, identifier) IN
    IF outcome = "ok"
    THEN /\ CLIENTS' = Put(CLIENTS, identifier, websocket)
         /\ CONNECTIONS' = Put(CONNECTIONS, websocket, identifier)
         /\ sent' = <<ServerEnv(websocket, "0.1", JNone, JNone, identifier, "")>>
    ELSE /\ UNCHANGED <<CLIENTS, CONNECTIONS>>
         /\ sent' = <<ServerEnv(websocket, "0.2", JNone, JNone, identifier,
                                outcome)>>

\* --------------------------------------------------------- unregistration
\* unregister_client(websocket), lines 165-214: its effect on each
\* structure.  identifier and peer_id are its locals.
unreg_identifier(websocket) == Get(CONNECTIONS, websocket, JNone)

unreg_peer_id(websocket) ==
    Get(ACTIVE_SESSIONS, unreg_identifier(websocket), JNone)

\* As unreg_sessions, with every session dropped when the connection is not
\* registered.
unreg_sessions_clearing(websocket) ==
    LET identifier == unreg_identifier(websocket)
        peer_id == unreg_peer_id(websocket)
    IN  IF websocket \in DOMAIN CONNECTIONS
        THEN IF identifier \in DOMAIN ACTIVE_SESSIONS
             THEN IF Truthy(peer_id) /\ peer_id \in DOMAIN ACTIVE_SESSIONS
                  THEN Del(Del(ACTIVE_SESSIONS, identifier), peer_id)
                  ELSE Del(ACTIVE_SESSIONS, identifier)
             ELSE ACTIVE_SESSIONS
        ELSE EmptyDict

unreg_sessions(websocket) ==
    LET identifier == unreg_identifier(websocket)
        peer_id == unreg_peer_id(websocket)
    IN  IF websocket \in DOMAIN CONNECTIONS
            /\ identifier \in DOMAIN ACTIVE_SESSIONS
        THEN IF Truthy(peer_id) /\ peer_id \in DOMAIN ACTIVE_SESSIONS
             THEN Del(Del(ACTIVE_SESSIONS, identifier), peer_id)
             ELSE Del(ACTIVE_SESSIONS, identifier)
        ELSE ACTIVE_SESSIONS

\* The notification scheduled by asyncio.create_task (line 199), if any.
unreg_tasks(websocket) ==
    LET identifier == unreg_identifier(websocket)
        peer_id == unreg_peer_id(websocket)
    IN  IF websocket \in DOMAIN CONNECTIONS
            /\ identifier \in DOMAIN ACTIVE_SESSIONS
            /\ Truthy(peer_id)
            /\ peer_id \in DOMAIN CLIENTS
        THEN <<ServerEnv(CLIENTS[peer_id], "9", peer_id, identifier, JNone,
                         "disconnected")>>
        ELSE <<>>

\* As unreg_clients, with the identifier left in CLIENTS.
unreg_clients_kept(websocket) == CLIENTS

unreg_clients(websocket) ==
    IF websocket \in DOMAIN CONNECTIONS
    THEN Del(CLIENTS, unreg_identifier(websocket))
    ELSE CLIENTS

\* As unreg_connections, with the session peer unregistered as well.
unreg_connections_with_peer(websocket) ==
    LET peer_id == unreg_peer_id(websocket)
    IN  IF peer_id \in DOMAIN CLIENTS
        THEN Del(Del(CONNECTIONS, websocket), CLIENTS[peer_id])
        ELSE Del(CONNECTIONS, websocket)

\* As unreg_connections, with the connection left in CONNECTIONS.
unreg_connections_kept(websocket) == CONNECTIONS

unreg_connections(websocket) == Del(CONNECTIONS, websocket)

\* The finally block of connection_handler (lines 522-534), given the
\* MESSAGE_TIMESTAMPS the handler had reached.
Cleanup(c, stamps) ==
    /\ MESSAGE_TIMESTAMPS' = Del(stamps, c)
    /\ ACTIVE_SESSIONS' = unreg_sessions(c)
    /\ tasks' = tasks \o unreg_tasks(c)
    /\ CLIENTS' = unreg_clients(c)
    /\ CONNECTIONS' = unreg_connections(c)
    /\ paired' = {p \in paired : unreg_identifier(c) \notin p}
    /\ pc' = [pc EXCEPT ![c] = "done"]
    /\ hlocal' = [hlocal EXCEPT ![c] = NoLocal]

\* ------------------------------------------------------------------ actions
\* The clock advances.
Tick ==
    /\ now < MaxTime
    /\ now' = now + 1
    /\ accepted' = [ip \in IPs |->
                      Prune(accepted[ip], now + 1, CONNECTION_WINDOW_SECONDS)]
    /\ sent' = <<>>
    /\ UNCHANGED <<config_complete, pc, transport, hlocal, CLIENTS,
                   CONNECTIONS, CONNECTION_ATTEMPTS, MESSAGE_TIMESTAMPS,
                   ACTIVE_SESSIONS, tasks, paired, nframes>>

\* Some task or suspended handler still holds the websocket object of slot c.
Referenced(c) ==
    \/ \E i \in 1..Len(tasks) : tasks[i].to = c
    \/ \E d \in Conns : hlocal[d].target_websocket = c

\* The comparison of line 249.
connection_limit_reached(valid_attempts) ==
    Len(valid_attempts) >= MAX_CONNECTIONS_PER_IP

\* As GateReject, with the tracking of line 264 done before the gate.
GateReject_tracked(c, valid_attempts) ==
    /\ pc' = [pc EXCEPT ![c] = "closing_ip"]
    /\ transport' = [transport EXCEPT ![c] = "closed_1008"]
    /\ hlocal' = [hlocal EXCEPT ![c] =
                    [NoLocal EXCEPT !.valid_attempts = valid_attempts]]
    /\ MESSAGE_TIMESTAMPS' = Put(MESSAGE_TIMESTAMPS, c, <<>>)
    /\ UNCHANGED <<CONNECTION_ATTEMPTS, accepted>>

\* The rejecting branch of the IP gate, lines 249-253, up to the suspension
\* in websocket.close.
GateReject(c, valid_attempts) ==
    /\ pc' = [pc EXCEPT ![c] = "closing_ip"]
    /\ transport' = [transport EXCEPT ![c] = "closed_1008"]
    /\ hlocal' = [hlocal EXCEPT ![c] =
                    [NoLocal EXCEPT !.valid_attempts = valid_attempts]]
    /\ UNCHANGED <<CONNECTION_ATTEMPTS, MESSAGE_TIMESTAMPS, accepted>>

\* connection_handler is started for a new connection: the IP gate, lines
\* 238-264.  A rejected handler suspends in websocket.close with its
\* valid_attempts; an accepted one reaches the receive loop.
Connect(c) ==
    /\ pc[c] \in {"new", "done"}
    /\ ~Referenced(c)
    /\ LET client_ip == remote_address(c)
           current_time == now
           connection_times == Get(CONNECTION_ATTEMPTS, client_ip, <<>>)
           valid_attempts ==
               Prune(connection_times, current_time, CONNECTION_WINDOW_SECONDS)
       IN  IF connection_limit_reached(valid_attempts)
           THEN GateReject(c, valid_attempts)
           ELSE /\ CONNECTION_ATTEMPTS' =
                       Put(CONNECTION_ATTEMPTS, client_ip,
                           Append(valid_attempts, current_time))
                /\ MESSAGE_TIMESTAMPS' = Put(MESSAGE_TIMESTAMPS, c, <<>>)
                /\ pc' = [pc EXCEPT ![c] = "open"]
                /\ transport' = [transport EXCEPT ![c] = "open"]
                /\ accepted' = [accepted EXCEPT ![client_ip] =
                                  Append(Prune(@, current_time,
                                               CONNECTION_WINDOW_SECONDS),
                                         current_time)]
                /\ UNCHANGED hlocal
    /\ sent' = <<>>
    /\ UNCHANGED <<now, config_complete, CLIENTS, CONNECTIONS, ACTIVE_SESSIONS,
                   tasks, paired, nframes>>

\* websocket.close returned in a rejected handler: lines 255-256.
GateRejectResume(c) ==
    /\ pc[c] = "closing_ip"
    /\ CONNECTION_ATTEMPTS' =
           Put(CONNECTION_ATTEMPTS, remote_address(c), hlocal[c].valid_attempts)
    /\ pc' = [pc EXCEPT ![c] = "done"]
    /\ hlocal' = [hlocal EXCEPT ![c] = NoLocal]
    /\ sent' = <<>>
    /\ UNCHANGED <<now, config_complete, transport, CLIENTS, CONNECTIONS,
                   MESSAGE_TIMESTAMPS, ACTIVE_SESSIONS, tasks, paired, accepted,
                   nframes>>

\* The handler goes on to the next frame: only its window and its reply.
Stay(stamps, envs) ==
    /\ MESSAGE_TIMESTAMPS' = stamps
    /\ sent' = envs
    /\ UNCHANGED <<pc, transport, hlocal, CLIENTS, CONNECTIONS, ACTIVE_SESSIONS,
                   tasks, paired>>

\* An exception other than ConnectionClosed leaves the loop (line 518) and
\* the finally block runs; the library then closes the connection.
HandlerException(c, stamps) ==
    /\ Cleanup(c, stamps)
    /\ transport' = [transport EXCEPT ![c] = "closed"]
    /\ sent' = <<>>

\* As message_limit_reached, one frame late.
message_limit_reached_late(valid_message_times) ==
    Len(valid_message_times) > MAX_MESSAGES_PER_CONNECTION

\* The comparison of line 280.
message_limit_reached(valid_message_times) ==
    Len(valid_message_times) >= MAX_MESSAGES_PER_CONNECTION

\* As unavailable_reply, with the error swallowed.
unavailable_reply_silent(c, target_id) == <<>>

\* The "unavailable" error of lines 491-492 and 503-504.
unavailable_reply(c, target_id) ==
    <<ServerEnv(c, "-1", target_id, JNone, JNone, "unavailable")>>

\* One iteration of the receive loop, lines 271-508, up to its end or to
\* the suspension in target_websocket.send.
OnMessage(c, message) ==
    /\ pc[c] = "open"
    /\ transport[c] = "open"
    /\ nframes < MaxFrames
    /\ nframes' = nframes + 1
    /\ UNCHANGED <<now, config_complete, CONNECTION_ATTEMPTS, accepted>>
    /\ LET current_time == now
           message_times == Get(MESSAGE_TIMESTAMPS, c, <<>>)
           valid_message_times ==
               Prune(message_times, current_time, MESSAGE_WINDOW_SECONDS)
           stamps == Put(MESSAGE_TIMESTAMPS, c,
                         Append(valid_message_times, current_time))
           sender_id == Get(CONNECTIONS, c, JNone)
           target_id == message.targetId
       IN  IF message_limit_reached(valid_message_times)
           THEN \* lines 280-288
                /\ sent' = <<ServerEnv(c, "-2", JNone, JNone, JNone,
                                       "rate_limit")>>
                /\ transport' = [transport EXCEPT ![c] = "closed_1008"]
                /\ pc' = [pc EXCEPT ![c] = "closing_rl"]
                /\ UNCHANGED <<hlocal, CLIENTS, CONNECTIONS, MESSAGE_TIMESTAMPS,
                               ACTIVE_SESSIONS, tasks, paired>>
           ELSE IF message.shape = "undecodable"
           THEN \* line 301: an exception that is no JSONDecodeError
                HandlerException(c, stamps)
           ELSE IF message.shape # "ok"
           THEN Stay(stamps, <<>>)
           ELSE IF ~config_complete
           THEN \* line 342: AttributeError
                HandlerException(c, stamps)
           ELSE IF ~validation_passed(message, sender_id)
           THEN Stay(stamps, validation_reply(c, message))
           ELSE IF message.type = "0"
           THEN /\ handle_registration(c, message.identifier)
                /\ MESSAGE_TIMESTAMPS' = stamps
                /\ UNCHANGED <<pc, transport, hlocal, ACTIVE_SESSIONS, tasks,
                               paired>>
           ELSE IF ~Truthy(sender_id)
           THEN \* line 508
                Stay(stamps, <<>>)
           ELSE IF target_id = JList
           THEN \* line 453: TypeError, unhashable key
                HandlerException(c, stamps)
           ELSE IF target_id \in DOMAIN CLIENTS
           THEN \* line 462: suspended in the send
                /\ pc' = [pc EXCEPT ![c] = "relaying"]
                /\ hlocal' = [hlocal EXCEPT ![c] =
                                [NoLocal EXCEPT !.message = message,
                                                !.sender_id = sender_id,
                                                !.target_websocket =
                                                    CLIENTS[target_id]]]
                /\ MESSAGE_TIMESTAMPS' = stamps
                /\ sent' = <<>>
                /\ UNCHANGED <<transport, CLIENTS, CONNECTIONS, ACTIVE_SESSIONS,
                               tasks, paired>>
           ELSE \* lines 498-504
                Stay(stamps, unavailable_reply(c, target_id))

\* As sessions_after_relay, recording an accept for the sender only.
sessions_after_relay_one_way(message_type, sender_id, target_id) ==
    IF message_type = "2"
    THEN Put(ACTIVE_SESSIONS, sender_id, target_id)
    ELSE IF message_type = "9"
    THEN IF sender_id \in DOMAIN ACTIVE_SESSIONS
            /\ ACTIVE_SESSIONS[sender_id] = target_id
         THEN Del(ACTIVE_SESSIONS, sender_id)
         ELSE ACTIVE_SESSIONS
    ELSE ACTIVE_SESSIONS

\* As sessions_after_relay, with an end clearing the entries of sender and
\* target wherever they point.
sessions_after_relay_unmatched(message_type, sender_id, target_id) ==
    IF message_type = "2"
    THEN Put(Put(ACTIVE_SESSIONS, sender_id, target_id), target_id, sender_id)
    ELSE IF message_type = "9"
    THEN Del(Del(ACTIVE_SESSIONS, sender_id), target_id)
    ELSE ACTIVE_SESSIONS

\* ACTIVE_SESSIONS after a successful relay, lines 466-483.
sessions_after_relay(message_type, sender_id, target_id) ==
    IF message_type = "2"
    THEN Put(Put(ACTIVE_SESSIONS, sender_id, target_id), target_id, sender_id)
    ELSE IF message_type = "9"
    THEN LET s1 == IF sender_id \in DOMAIN ACTIVE_SESSIONS
                      /\ ACTIVE_SESSIONS[sender_id] = target_id
                   THEN Del(ACTIVE_SESSIONS, sender_id)
                   ELSE ACTIVE_SESSIONS
         IN  IF target_id \in DOMAIN s1 /\ s1[target_id] = sender_id
             THEN Del(s1, target_id)
             ELSE s1
    ELSE ACTIVE_SESSIONS

\* As forwarded, with the frame serialized again from the parsed message.
forwarded_reserialized(c) ==
    <<RelayEnv(hlocal[c].target_websocket, c,
               [hlocal[c].message EXCEPT !.raw = 0])>>

\* As forwarded, with the frame handed to the transport a second time.
forwarded_twice(c) ==
    <<RelayEnv(hlocal[c].target_websocket, c, hlocal[c].message),
      RelayEnv(hlocal[c].target_websocket, c, hlocal[c].message)>>

\* What the relay hands to the target's transport, line 462.
forwarded(c) == <<RelayEnv(hlocal[c].target_websocket, c, hlocal[c].message)>>

\* As RelayResume, with the failure of the send ignored.
RelayResume_unchecked(c) ==
    /\ pc[c] = "relaying"
    /\ LET message == hlocal[c].message
           sender_id == hlocal[c].sender_id
           target_id == message.targetId
       IN  /\ sent' = forwarded(c)
           /\ ACTIVE_SESSIONS' =
                  sessions_after_relay(message.type, sender_id, target_id)
           /\ paired' =
                  IF message.type = "2"
                  THEN paired \cup {{sender_id, target_id}}
                  ELSE IF message.type = "9"
                  THEN paired \ {{sender_id, target_id}}
                  ELSE paired
    /\ pc' = [pc EXCEPT ![c] = "open"]
    /\ hlocal' = [hlocal EXCEPT ![c] = NoLocal]
    /\ UNCHANGED <<now, config_complete, transport, CLIENTS, CONNECTIONS,
                   CONNECTION_ATTEMPTS, MESSAGE_TIMESTAMPS, tasks, accepted,
                   nframes>>

\* target_websocket.send returned or raised ConnectionClosed: lines 464-492.
RelayResume(c) ==
    /\ pc[c] = "relaying"
    /\ LET message == hlocal[c].message
           sender_id == hlocal[c].sender_id
           target_id == message.targetId
           target_websocket == hlocal[c].target_websocket
       IN  IF transport[target_websocket] = "open"
           THEN /\ sent' = forwarded(c)
                /\ ACTIVE_SESSIONS' =
                       sessions_after_relay(message.type, sender_id, target_id)
                /\ paired' =
                       IF message.type = "2"
                       THEN paired \cup {{sender_id, target_id}}
                       ELSE IF message.type = "9"
                       THEN paired \ {{sender_id, target_id}}
                       ELSE paired
           ELSE /\ sent' = IF transport[c] = "open"
                           THEN unavailable_reply(c, target_id)
                           ELSE <<>>
                /\ UNCHANGED <<ACTIVE_SESSIONS, paired>>
    /\ pc' = [pc EXCEPT ![c] = "open"]
    /\ hlocal' = [hlocal EXCEPT ![c] = NoLocal]
    /\ UNCHANGED <<now, config_complete, transport, CLIENTS, CONNECTIONS,
                   CONNECTION_ATTEMPTS, MESSAGE_TIMESTAMPS, tasks, accepted,
                   nframes>>

\* The peer goes away or the network fails.
TransportClose(c) ==
    /\ transport[c] = "open"
    /\ transport' = [transport EXCEPT ![c] = "peer_closed"]
    /\ sent' = <<>>
    /\ UNCHANGED <<now, config_complete, pc, hlocal, CLIENTS, CONNECTIONS,
                   CONNECTION_ATTEMPTS, MESSAGE_TIMESTAMPS, ACTIVE_SESSIONS,
                   tasks, paired, accepted, nframes>>

\* As OnClose, without the way out of the rate-limit closure.
OnClose_open_only(c) ==
    /\ pc[c] = "open" /\ transport[c] # "open"
    /\ Cleanup(c, MESSAGE_TIMESTAMPS)
    /\ sent' = <<>>
    /\ UNCHANGED <<now, config_complete, transport, CONNECTION_ATTEMPTS,
                   accepted, nframes>>

\* The receive loop ends on a closed connection (lines 512-517), or the
\* handler resumes from the close of line 287 and breaks: finally runs.
OnClose(c) ==
    /\ \/ pc[c] = "open" /\ transport[c] # "open"
       \/ pc[c] = "closing_rl"
    /\ Cleanup(c, MESSAGE_TIMESTAMPS)
    /\ sent' = <<>>
    /\ UNCHANGED <<now, config_complete, transport, CONNECTION_ATTEMPTS,
                   accepted, nframes>>

\* As RunTask, with the peer unregistered when the send fails.
RunTask_unregistering(i) ==
    /\ i \in 1..Len(tasks)
    /\ sent' = IF transport[tasks[i].to] = "open" THEN <<tasks[i]>> ELSE <<>>
    /\ tasks' = SubSeq(tasks, 1, i - 1) \o SubSeq(tasks, i + 1, Len(tasks))
    /\ CONNECTIONS' = IF transport[tasks[i].to] = "open"
                      THEN CONNECTIONS
                      ELSE Del(CONNECTIONS, tasks[i].to)
    /\ UNCHANGED <<now, config_complete, pc, transport, hlocal, CLIENTS,
                   CONNECTION_ATTEMPTS, MESSAGE_TIMESTAMPS,
                   ACTIVE_SESSIONS, paired, accepted, nframes>>

\* The event loop runs a notification task: send_json(peer_websocket, 9, ..),
\* which swallows the failure of a send on a closed connection.
RunTask(i) ==
    /\ i \in 1..Len(tasks)
    /\ sent' = IF transport[tasks[i].to] = "open" THEN <<tasks[i]>> ELSE <<>>
    /\ tasks' = SubSeq(tasks, 1, i - 1) \o SubSeq(tasks, i + 1, Len(tasks))
    /\ UNCHANGED <<now, config_complete, pc, transport, hlocal, CLIENTS,
                   CONNECTIONS, CONNECTION_ATTEMPTS, MESSAGE_TIMESTAMPS,
                   ACTIVE_SESSIONS, paired, accepted, nframes>>

\* Clients that connect once each, all within one rate-limit window, and
\* speak the protocol (or fail to).
Next ==
    \/ \E c \in Conns : pc[c] = "new" /\ Connect(c)
    \/ \E c \in Conns : \E message \in FramesOf(c) : OnMessage(c, message)
    \/ \E c \in Conns : RelayResume(c)
    \/ \E c \in Conns : TransportClose(c)
    \/ \E c \in Conns : OnClose(c)
    \/ \E i \in 1..NConn : RunTask(i)

Spec == Init /\ [][Next]_vars

\* Clients that connect, send frames that are not JSON, disconnect and
\* connect again while the clock advances: the two rate limiters.
NextGate ==
    \/ Tick
    \/ \E c \in Conns : Connect(c)
    \/ \E c \in Conns : GateRejectResume(c)
    \/ \E c \in Conns : \E message \in GateFrames : OnMessage(c, message)
    \/ \E c \in Conns : TransportClose(c)
    \/ \E c \in Conns : OnClose(c)

InitGate == Init /\ config_complete

SpecGate == InitGate /\ [][NextGate]_vars

\* The event loop resumes every handler whose await has completed: a
\* handler whose connection is closed leaves the receive loop, and a
\* handler suspended in a send gets its result.
Fairness ==
    \A c \in Conns : WF_vars(OnClose(c)) /\ WF_vars(RelayResume(c))

SpecLive == Init /\ [][Next]_vars /\ Fairness

\* What a client that transfers files sends: the registration of its own
\* identifier and file transfer requests.
FileFramesOf(c) ==
    {Frame("ok", "0", Own(c), JNone, JNone, TRUE, 0)} \cup FileFrames(c)

\* Clients that connect once each, register and request file transfers.
NextFile ==
    \/ \E c \in Conns : pc[c] = "new" /\ Connect(c)
    \/ \E c \in Conns : \E message \in FileFramesOf(c) : OnMessage(c, message)
    \/ \E c \in Conns : RelayResume(c)
    \/ \E c \in Conns : TransportClose(c)
    \/ \E c \in Conns : OnClose(c)

SpecFile == Init /\ [][NextFile]_vars

\* What a careless or hostile client sends: malformed frames, the hostile
\* frames, registrations (its own identifier, one the grammar rejects, none)
\* and an oversized file request.
HostileFramesOf(c) ==
    MalformedFrames \cup HostileFrames(c)
    \cup {Frame("ok", "0", id, JNone, JNone, TRUE, 0) :
             id \in {Own(c), IdShort, JNone}}
    \cup {FileFrame(IdA, Own(c), TransferId, FileName,
                    FileSize("int", MAX_FILE_SIZE_BYTES + 1), FileType)}

NextHostile ==
    \/ \E c \in Conns : pc[c] = "new" /\ Connect(c)
    \/ \E c \in Conns : \E message \in HostileFramesOf(c) : OnMessage(c, message)
    \/ \E c \in Conns : RelayResume(c)
    \/ \E c \in Conns : TransportClose(c)
    \/ \E c \in Conns : OnClose(c)
    \/ \E i \in 1..NConn : RunTask(i)

SpecHostile == Init /\ [][NextHostile]_vars

\* What clients that all talk to bob send while the clock advances: the
\* registration of their own identifier, an accept for bob, and an
\* encrypted message for bob.  Of the transports only bob's, the common
\* target, fails.
OrderFramesOf(c) ==
    {Frame("ok", "0", Own(c), JNone, JNone, TRUE, 0),
     Frame("ok", "2", JNone, IdB, Own(c), TRUE, 0),
     Frame("ok", "8", JNone, IdB, Own(c), TRUE, 0)}

NextOrder ==
    \/ Tick
    \/ \E c \in Conns : pc[c] = "new" /\ Connect(c)
    \/ \E c \in Conns : \E message \in OrderFramesOf(c) : OnMessage(c, message)
    \/ \E c \in Conns : RelayResume(c)
    \/ \E c \in Conns : Own(c) = IdB /\ TransportClose(c)
    \/ \E c \in Conns : OnClose(c)
    \/ \E i \in 1..NConn : RunTask(i)

SpecOrder == InitGate /\ [][NextOrder]_vars

\* What clients send while the clock advances and the message window fills:
\* malformed and undecodable frames, the registration of their own
\* identifier, and encrypted messages for bob, one of them with a bad field.
WindowFramesOf(c) ==
    MalformedFrames
    \cup {UndecodableFrame,
          Frame("ok", "0", Own(c), JNone, JNone, TRUE, 0),
          Frame("ok", "8", JNone, IdB, Own(c), TRUE, 0),
          Frame("ok", "8", JNone, IdB, Own(c), FALSE, 0)}

NextWindow ==
    \/ Tick
    \/ \E c \in Conns : pc[c] = "new" /\ Connect(c)
    \/ \E c \in Conns : \E message \in WindowFramesOf(c) : OnMessage(c, message)
    \/ \E c \in Conns : RelayResume(c)
    \/ \E c \in Conns : Own(c) = IdB /\ TransportClose(c)
    \/ \E c \in Conns : OnClose(c)

SpecWindow == Init /\ [][NextWindow]_vars

\* Identifiers at the edges of the grammar: of 30 and of 31 characters, with
\* a newline after a valid identifier (of 4 and of 31 characters in all),
\* ending in a character outside the set, starting with an underscore, and
\* the empty string.
Id30 == [i \in 1..30 |-> "a"]
Id31 == [i \in 1..31 |-> "a"]
IdNewline == <<"a", "l", "i", "\n">>
Id30Newline == Id30 \o <<"\n">>
IdBang == <<"a", "l", "i", "!">>
IdUnder == <<"_", "a", "b">>
IdEmpty == <<>>

RegisterIds(c) ==
    {Own(c), IdA, IdShort, Id30, Id31, IdNewline, Id30Newline, IdBang,
     IdUnder, IdEmpty, JNone}

\* What a client that tries identifiers sends: registration requests, and,
\* once it holds an identifier, accepts to the other registered clients
\* signed with that identifier.
RegisterFramesOf(c) ==
    {Frame("ok", "0", id, JNone, JNone, TRUE, 0) : id \in RegisterIds(c)}

AcceptFramesOf(c) ==
    {Frame("ok", "2", JNone, tg, CONNECTIONS[c], TRUE, 0) :
        tg \in DOMAIN CLIENTS \ {CONNECTIONS[c]}}

NextRegister ==
    \/ \E c \in Conns : pc[c] = "new" /\ Connect(c)
    \/ \E c \in Conns : \E message \in RegisterFramesOf(c) : OnMessage(c, message)
    \/ \E c \in DOMAIN CONNECTIONS :
          \E message \in AcceptFramesOf(c) : OnMessage(c, message)
    \/ \E c \in Conns : RelayResume(c)
    \/ \E c \in Conns : TransportClose(c)
    \/ \E c \in Conns : OnClose(c)

SpecRegister == Init /\ [][NextRegister]_vars

\* Clients that connect, register, accept each other, disconnect and
\* connect again within one window of the IP gate, which then turns them
\* away.
NextLife ==
    \/ \E c \in Conns : Connect(c)
    \/ \E c \in Conns : GateRejectResume(c)
    \/ \E c \in Conns : \E message \in RegisterFrames(c) : OnMessage(c, message)
    \/ \E c \in DOMAIN CONNECTIONS :
          \E message \in AcceptFramesOf(c) : OnMessage(c, message)
    \/ \E c \in Conns : RelayResume(c)
    \/ \E i \in 1..NConn : RunTask(i)
    \/ \E c \in Conns : TransportClose(c)
    \/ \E c \in Conns : OnClose(c)

SpecLife == Init /\ [][NextLife]_vars

\* ------------------------------------------------------------------ claims
\* C1: CLIENTS and CONNECTIONS are inverses of each other (no identifier is
\* held by two connections, no connection holds two identifiers), and a
\* connection that has just been sent the 0.1 success for an identifier is
\* the one connection holding it.
C1_RegistryInverse ==
    /\ \A id \in DOMAIN CLIENTS :
          CLIENTS[id] \in DOMAIN CONNECTIONS /\ CONNECTIONS[CLIENTS[id]] = id
    /\ \A c \in DOMAIN CONNECTIONS :
          CONNECTIONS[c] \in DOMAIN CLIENTS /\ CLIENTS[CONNECTIONS[c]] = c
    /\ \A i \in DOMAIN sent :
          sent[i].type = "0.1" =>
              /\ sent[i].identifier \in DOMAIN CLIENTS
              /\ CLIENTS[sent[i].identifier] = sent[i].to
              /\ \A d \in Conns \ {sent[i].to} :
                    Get(CONNECTIONS, d, JNone) # sent[i].identifier

\* Two connections asked for IdA: one holds it, the other has just been
\* refused it as taken.
C1_Witness ==
    \E c \in Conns, d \in Conns :
        /\ c # d
        /\ Get(CONNECTIONS, c, JNone) = IdA
        /\ sent = <<ServerEnv(d, "0.2", JNone, JNone, IdA, "taken")>>

\* C2: ACTIVE_SESSIONS is symmetric, whatever three or more registered
\* clients relayed.
C2_SessionsSymmetric ==
    (/\ Cardinality(DOMAIN CLIENTS) >= 3
     /\ \A a \in DOMAIN ACTIVE_SESSIONS : ACTIVE_SESSIONS[a] # a) =>
        \A a \in DOMAIN ACTIVE_SESSIONS :
            /\ ACTIVE_SESSIONS[a] \in DOMAIN ACTIVE_SESSIONS
            /\ ACTIVE_SESSIONS[ACTIVE_SESSIONS[a]] = a

\* The type-9 notifications about identifier a for connection to that the
\* step schedules.
NewNotifications(a, to) ==
    {i \in (Len(tasks) + 1)..Len(tasks') :
        tasks'[i].type = "9" /\ tasks'[i].senderId = a /\ tasks'[i].to = to}

\* C3: when the connection holding A is cleaned up while A is paired with B
\* (an accept was relayed between them, no end since) and B is registered,
\* exactly one type-9 envelope naming A is dispatched to B's connection.
C3_PeerNotified ==
    [][\A c \in Conns :
          (/\ c \in DOMAIN CONNECTIONS
           /\ {CONNECTIONS[c]} \notin paired
           /\ pc[c] # "done" /\ pc'[c] = "done") =>
              \A b \in Ids \ {CONNECTIONS[c]} :
                  ({CONNECTIONS[c], b} \in paired /\ b \in DOMAIN CLIENTS) =>
                      Cardinality(NewNotifications(CONNECTIONS[c], CLIENTS[b]))
                          = 1]_vars

\* C4: every relayed frame carries the sender's registered identifier as
\* its senderId.
C4_SenderIdAuthentic ==
    \A i \in DOMAIN sent :
        sent[i].from # 0 =>
            sent[i].senderId = Get(CONNECTIONS, sent[i].from, JNone)

\* C5: a relayed frame is the frame the sender's handler received, byte for
\* byte, and goes only to the connection that held its targetId in CLIENTS
\* when the handler looked it up.
C5_ByteExactRelay ==
    [][/\ \A i \in DOMAIN sent' :
             sent'[i].from # 0 =>
                 /\ pc[sent'[i].from] = "relaying"
                 /\ sent'[i].raw = hlocal[sent'[i].from].message
                 /\ sent'[i].to = hlocal[sent'[i].from].target_websocket
                 /\ Len(sent') = 1
       /\ \A c \in Conns :
             (pc[c] = "open" /\ pc'[c] = "relaying") =>
                 /\ hlocal'[c].message.targetId \in DOMAIN CLIENTS
                 /\ hlocal'[c].target_websocket
                        = CLIENTS[hlocal'[c].message.targetId]]_vars

\* A frame in the second byte encoding has been delivered to its target.
C5_Witness ==
    \E i \in DOMAIN sent :
        /\ sent[i].from # 0
        /\ sent[i].raw.raw = 1
        /\ Get(CLIENTS, sent[i].targetId, 0) = sent[i].to

\* The step moves no handler other than the one of connection c.
StepOf(c) ==
    \A d \in Conns \ {c} :
        /\ pc'[d] = pc[d]
        /\ hlocal'[d] = hlocal[d]
        /\ Get(MESSAGE_TIMESTAMPS', d, <<>>) = Get(MESSAGE_TIMESTAMPS, d, <<>>)

\* C6: a registered connection whose valid type-8 frame passes the rate
\* limit and names a targetId absent from CLIENTS is sent exactly one -1
\* envelope carrying that targetId; nothing else is sent, the connection
\* stays open and registered, and the registry and the sessions are
\* unchanged.
C6_UnavailableTarget ==
    [][\A c \in Conns :
          (/\ nframes' = nframes + 1
           /\ c \in DOMAIN CONNECTIONS
           /\ pc[c] = "open"
           /\ StepOf(c)
           /\ ~message_limit_reached(
                  Prune(Get(MESSAGE_TIMESTAMPS, c, <<>>), now,
                        MESSAGE_WINDOW_SECONDS))) =>
              \A target_id \in Ids \ DOMAIN CLIENTS, raw \in {0, 1} :
                  LET f == Frame("ok", "8", JNone, target_id, CONNECTIONS[c],
                                 TRUE, raw)
                  IN  \/ /\ sent' = <<ServerEnv(c, "-1", target_id, JNone,
                                                 JNone, "unavailable")>>
                          /\ pc'[c] = "open"
                          /\ transport'[c] = "open"
                          /\ UNCHANGED <<CLIENTS, CONNECTIONS, ACTIVE_SESSIONS,
                                         tasks>>
                      \/ ~validation_passed(f, CONNECTIONS[c])
                      \/ ~OnMessage(c, f)]_vars

\* A registered connection has just been told that bob is unavailable, and
\* no connection has closed, so that the lookup of line 453 missed.
C6_Witness ==
    \E c \in DOMAIN CONNECTIONS :
        /\ sent = <<ServerEnv(c, "-1", IdB, JNone, JNone, "unavailable")>>
        /\ IdB \notin DOMAIN CLIENTS
        /\ \A d \in Conns : pc[d] \in {"new", "open"}
        /\ \A d \in Conns : transport[d] \in {"none", "open"}

\* The IP gate's history: the accepted connections of the address of c that
\* are still within the window.
AcceptedInWindow(ip) ==
    Prune(accepted[ip], now, CONNECTION_WINDOW_SECONDS)

\* C7: both sliding windows allow a check exactly when fewer than the limit
\* were allowed within the window before it, and a rejected check records
\* nothing.
C7_SlidingWindow ==
    [][\A c \in Conns :
          /\ (pc[c] \in {"new", "done"} /\ pc'[c] \in {"open", "closing_ip"}) =>
                 /\ pc'[c] = "open" <=>
                        Len(AcceptedInWindow(remote_address(c)))
                            < MAX_CONNECTIONS_PER_IP
                 /\ pc'[c] = "closing_ip" => UNCHANGED CONNECTION_ATTEMPTS
          /\ (/\ nframes' = nframes + 1
              /\ pc[c] = "open"
              /\ \E f \in GateFrames : OnMessage(c, f)) =>
                 /\ pc'[c] = "open" <=>
                        Len(Prune(MESSAGE_TIMESTAMPS[c], now,
                                  MESSAGE_WINDOW_SECONDS))
                            < MAX_MESSAGES_PER_CONNECTION
                 /\ pc'[c] # "open" => UNCHANGED MESSAGE_TIMESTAMPS]_vars

\* C8: the connections accepted from one address within the window never
\* exceed MAX_CONNECTIONS_PER_IP.
C8_GateAtomic ==
    \A ip \in IPs : Len(AcceptedInWindow(ip)) <= MAX_CONNECTIONS_PER_IP

\* C9: a frame that arrives when the message window is full is answered with
\* exactly one -2 envelope and the connection is closed; the frame changes
\* neither the window, the registry, the sessions nor any relay, and the
\* closing connection counts, registers and relays nothing more.
C9_RateLimitClose ==
    [][\A c \in Conns :
          /\ (/\ nframes' = nframes + 1
              /\ pc[c] = "open"
              /\ StepOf(c)
              /\ Len(Prune(Get(MESSAGE_TIMESTAMPS, c, <<>>), now,
                            MESSAGE_WINDOW_SECONDS))
                     >= MAX_MESSAGES_PER_CONNECTION) =>
                 \/ /\ sent' = <<ServerEnv(c, "-2", JNone, JNone, JNone,
                                           "rate_limit")>>
                    /\ pc'[c] = "closing_rl"
                    /\ transport'[c] = "closed_1008"
                    /\ UNCHANGED <<MESSAGE_TIMESTAMPS, CLIENTS, CONNECTIONS,
                                   ACTIVE_SESSIONS, tasks, hlocal>>
                 \/ \A f \in FramesOf(c) : ~OnMessage(c, f)
          /\ (pc[c] = "closing_rl" /\ pc'[c] = "closing_rl") =>
                 /\ Get(CONNECTIONS', c, JNone) = Get(CONNECTIONS, c, JNone)
                 /\ Get(MESSAGE_TIMESTAMPS', c, <<>>)
                        = Get(MESSAGE_TIMESTAMPS, c, <<>>)
          /\ pc[c] = "closing_rl" =>
                 /\ pc'[c] \in {"closing_rl", "done"}
                 /\ hlocal'[c] = hlocal[c]
                 /\ \A i \in DOMAIN sent' : sent'[i].from # c]_vars

\* A registered connection is closing after the -2 envelope.
C9_Witness ==
    \E c \in DOMAIN CONNECTIONS :
        /\ pc[c] = "closing_rl"
        /\ transport[c] = "closed_1008"
        /\ sent = <<ServerEnv(c, "-2", JNone, JNone, JNone, "rate_limit")>>

\* C10: a connection rejected by the IP gate is closed with the policy
\* violation code and is otherwise untouched: it is never tracked in
\* MESSAGE_TIMESTAMPS, CLIENTS or CONNECTIONS, no envelope is sent to it or
\* relayed from it, and its own steps send nothing and leave the registry,
\* the sessions and the message windows alone.
C10_RejectedUntouched ==
    [][\A c \in Conns :
          /\ pc'[c] = "closing_ip" =>
                 /\ transport'[c] = "closed_1008"
                 /\ c \notin DOMAIN MESSAGE_TIMESTAMPS'
                 /\ c \notin DOMAIN CONNECTIONS'
                 /\ \A id \in DOMAIN CLIENTS' : CLIENTS'[id] # c
                 /\ \A i \in DOMAIN sent' :
                        sent'[i].to # c /\ sent'[i].from # c
          /\ (pc[c] # pc'[c] /\ "closing_ip" \in {pc[c], pc'[c]}) =>
                 /\ pc'[c] \in {"closing_ip", "done"}
                 /\ sent' = <<>>
                 /\ UNCHANGED <<CLIENTS, CONNECTIONS, ACTIVE_SESSIONS,
                                MESSAGE_TIMESTAMPS, tasks>>]_vars

\* A connection is being rejected while another connection of the same
\* address is open and has had a frame counted.
C10_Witness ==
    \E c, d \in Conns :
        /\ pc[c] = "closing_ip"
        /\ transport[c] = "closed_1008"
        /\ pc[d] = "open"
        /\ remote_address(d) = remote_address(c)
        /\ Get(MESSAGE_TIMESTAMPS, d, <<>>) # <<>>

\* C11: a type-12 frame that passes the rate limit, has a valid targetId,
\* transferId and fileName and an integer fileSize above MAX_FILE_SIZE_BYTES
\* is not forwarded; its sender is sent exactly one type-17 envelope with
\* the request's transferId and stays open; ACTIVE_SESSIONS, CLIENTS and
\* CONNECTIONS are unchanged.
C11_OversizedRejected ==
    [][\A c \in Conns :
          (/\ nframes' = nframes + 1
           /\ pc[c] = "open"
           /\ StepOf(c)
           /\ ~message_limit_reached(
                  Prune(Get(MESSAGE_TIMESTAMPS, c, <<>>), now,
                        MESSAGE_WINDOW_SECONDS))) =>
              \A f \in FileFrames(c) :
                  \/ /\ Len(sent') = 1
                     /\ sent'[1].type = "17"
                     /\ sent'[1].to = c
                     /\ sent'[1].transferId = f.transferId
                     /\ pc'[c] = "open"
                     /\ UNCHANGED <<CLIENTS, CONNECTIONS, ACTIVE_SESSIONS>>
                  \/ ~(/\ is_valid_string(f.targetId, 30)
                       /\ is_valid_string(f.transferId, 64)
                       /\ is_valid_string(f.fileName, 255)
                       /\ IsInt(f.fileSize)
                       /\ f.fileSize.value > MAX_FILE_SIZE_BYTES)
                  \/ ~OnMessage(c, f)]_vars

\* The step hands a frame of connection c to its target.
Forwards(c) ==
    /\ pc[c] = "relaying"
    /\ \E i \in DOMAIN sent' : sent'[i].from = c

\* A and B are each other's entry in ACTIVE_SESSIONS.
PairedInMap(a, b) ==
    /\ a \in DOMAIN ACTIVE_SESSIONS /\ ACTIVE_SESSIONS[a] = b
    /\ b \in DOMAIN ACTIVE_SESSIONS /\ ACTIVE_SESSIONS[b] = a

C13_PairingStable ==
    [][\A c \in DOMAIN CONNECTIONS :
          (\/ Forwards(c)
           \/ pc[c] # "done" /\ pc'[c] = "done") =>
              \A a, b \in Ids \ {CONNECTIONS[c]} :
                  (a # b /\ PairedInMap(a, b)) =>
                      /\ a \in DOMAIN ACTIVE_SESSIONS'
                      /\ b \in DOMAIN ACTIVE_SESSIONS'
                      /\ ACTIVE_SESSIONS'[a] = b
                      /\ ACTIVE_SESSIONS'[b] = a]_vars

\* C14: the cleanup of a connection registered as X removes X from CLIENTS
\* and the connection from CONNECTIONS in one step, leaving the two maps
\* inverse to each other; and whenever X is held by nobody (the config then
\* defines every name the handler reads, or X could not have been held),
\* the registration frame for X of an unregistered open connection that
\* passes the rate limit is answered with 0.1 and registers it.
C14_FreedAtOnce ==
    [][/\ \A c \in DOMAIN CONNECTIONS :
             (pc[c] # "done" /\ pc'[c] = "done") =>
                 /\ CONNECTIONS[c] \notin DOMAIN CLIENTS'
                 /\ c \notin DOMAIN CONNECTIONS'
                 /\ \A d \in DOMAIN CONNECTIONS' :
                        /\ CONNECTIONS'[d] # CONNECTIONS[c]
                        /\ CONNECTIONS'[d] \in DOMAIN CLIENTS'
                        /\ CLIENTS'[CONNECTIONS'[d]] = d
                 /\ \A id \in DOMAIN CLIENTS' :
                        /\ CLIENTS'[id] \in DOMAIN CONNECTIONS'
                        /\ CONNECTIONS'[CLIENTS'[id]] = id
       /\ \A d \in Conns \ DOMAIN CONNECTIONS :
             (/\ nframes' = nframes + 1
              /\ config_complete
              /\ pc[d] = "open"
              /\ StepOf(d)
              /\ ~message_limit_reached(
                     Prune(Get(MESSAGE_TIMESTAMPS, d, <<>>), now,
                           MESSAGE_WINDOW_SECONDS))) =>
                 \A x \in Ids \ DOMAIN CLIENTS :
                     \/ /\ sent' = <<ServerEnv(d, "0.1", JNone, JNone, x, "")>>
                        /\ CLIENTS' = Put(CLIENTS, x, d)
                        /\ CONNECTIONS' = Put(CONNECTIONS, d, x)
                     \/ ~OnMessage(d, Frame("ok", "0", x, JNone, JNone,
                                            TRUE, 0))]_vars

\* A connection that held ali was cleaned up while in a session (its
\* notification is still scheduled), and another connection has just
\* registered as ali.
C14_Witness ==
    \E d \in DOMAIN CONNECTIONS :
        /\ CONNECTIONS[d] = IdA
        /\ sent = <<ServerEnv(d, "0.1", JNone, JNone, IdA, "")>>
        /\ \E i \in DOMAIN tasks : tasks[i].senderId = IdA
        /\ \E c \in Conns \ {d} : pc[c] = "done"

\* C15: when the handler of an accepted connection finishes (no client
\* having accepted a session with itself), the connection
\* is in neither MESSAGE_TIMESTAMPS nor CONNECTIONS, the identifier it held
\* is not in CLIENTS, and no entry of ACTIVE_SESSIONS has that identifier as
\* key or as value.
C15_CleanupComplete ==
    [][\A c \in Conns :
          (/\ pc[c] \in {"open", "relaying", "closing_rl"} /\ pc'[c] = "done"
           /\ \A x \in Ids : {x} \notin paired) =>
              /\ c \notin DOMAIN MESSAGE_TIMESTAMPS'
              /\ c \notin DOMAIN CONNECTIONS'
              /\ c \in DOMAIN CONNECTIONS =>
                     /\ CONNECTIONS[c] \notin DOMAIN CLIENTS'
                     /\ CONNECTIONS[c] \notin DOMAIN ACTIVE_SESSIONS'
                     /\ \A k \in DOMAIN ACTIVE_SESSIONS' :
                            ACTIVE_SESSIONS'[k] # CONNECTIONS[c]]_vars

\* The handler of connection c has run its cleanup.
CleanedUp(c) ==
    /\ pc[c] = "done"
    /\ c \notin DOMAIN MESSAGE_TIMESTAMPS
    /\ c \notin DOMAIN CONNECTIONS

\* C16: once the transport of an accepted connection is closed, by the peer
\* or by the rate limiter, its handler eventually runs the cleanup, and a
\* handler that has run it never runs again.
C16_CleanupOnce ==
    /\ \A c \in Conns :
          (pc[c] \in {"open", "relaying", "closing_rl"} /\ transport[c] # "open")
              ~> CleanedUp(c)
    /\ [][\A c \in Conns :
             CleanedUp(c) => CleanedUp(c)']_vars

\* One connection was closed by the rate limiter and another by its peer
\* while registered, and both handlers have cleaned up.
C16_Witness ==
    \E c, d \in Conns :
        /\ CleanedUp(c) /\ transport[c] = "closed_1008"
        /\ CleanedUp(d) /\ transport[d] = "peer_closed"
        /\ tasks # <<>>

\* The identifier grammar as the protocol states it: a string of 3 to 30
\* characters, the first alphanumeric, the others alphanumeric, underscore
\* or hyphen.
Grammar(x) == IsStr(x) /\ IdentifierBody(x)

\* The frame of connection c is admitted by the message rate limit, and the
\* step is a step of c's handler on one inbound frame.
FrameStep(c) ==
    /\ nframes' = nframes + 1
    /\ pc[c] = "open"
    /\ StepOf(c)
    /\ ~message_limit_reached(
           Prune(Get(MESSAGE_TIMESTAMPS, c, <<>>), now, MESSAGE_WINDOW_SECONDS))

\* Connection c is sent one 0.2 for identifier x with one of the reasons,
\* and the registry is left as it was.
Rejected(c, x, reasons) ==
    /\ \E r \in reasons : sent' = <<ServerEnv(c, "0.2", JNone, JNone, x, r)>>
    /\ UNCHANGED <<CLIENTS, CONNECTIONS>>

\* Connection c is registered as x and sent one 0.1.
Accepted(c, x) ==
    /\ sent' = <<ServerEnv(c, "0.1", JNone, JNone, x, "")>>
    /\ CLIENTS' = Put(CLIENTS, x, c)
    /\ CONNECTIONS' = Put(CONNECTIONS, c, x)

\* C17: a registration request for identifier x on connection c is decided
\* by the first failing check, in this order: x violates the grammar (0.2,
\* format reason), x is in CLIENTS (0.2, taken), c is in CONNECTIONS (0.2,
\* already registered); with no failing check c is registered as x and
\* sent 0.1.
C17_OrderedChecks ==
    [][\A c \in Conns :
          FrameStep(c) =>
              \A x \in RegisterIds(c) :
                  \/ IF ~Grammar(x)
                     THEN Rejected(c, x, {"invalid_format", "bad_identifier"})
                     ELSE IF x \in DOMAIN CLIENTS
                     THEN Rejected(c, x, {"taken"})
                     ELSE IF c \in DOMAIN CONNECTIONS
                     THEN Rejected(c, x, {"already_registered"})
                     ELSE Accepted(c, x)
                  \/ ~OnMessage(c, Frame("ok", "0", x, JNone, JNone, TRUE, 0))]_vars

\* The step sends connection c a 0.2 envelope.
RejectionSent(c) ==
    \E i \in DOMAIN sent' : sent'[i].type = "0.2" /\ sent'[i].to = c

\* C18: a step that rejects a registration of connection c changes none of
\* CLIENTS, CONNECTIONS and ACTIVE_SESSIONS and leaves c open; and an
\* unregistered connection that has had a request rejected (under
\* SpecRegister: it is open and a frame of it has been taken in) and now
\* sends, within the rate limit, a registration frame for a valid identifier
\* held by nobody is registered and sent 0.1.
C18_RejectionHarmless ==
    [][\A c \in Conns :
          FrameStep(c) =>
              /\ RejectionSent(c) =>
                     /\ UNCHANGED <<CLIENTS, CONNECTIONS, ACTIVE_SESSIONS>>
                     /\ pc'[c] = "open"
                     /\ transport'[c] = transport[c]
              /\ (c \notin DOMAIN CONNECTIONS
                     /\ Get(MESSAGE_TIMESTAMPS, c, <<>>) # <<>>) =>
                     \A x \in RegisterIds(c) :
                         \/ Accepted(c, x)
                         \/ ~Grammar(x)
                         \/ x \in DOMAIN CLIENTS
                         \/ ~OnMessage(c, Frame("ok", "0", x, JNone, JNone,
                                                TRUE, 0))]_vars

\* A connection whose first request was rejected has just registered with
\* its second, while two other clients are in a session.
C18_Witness ==
    \E c \in DOMAIN CONNECTIONS :
        /\ Len(MESSAGE_TIMESTAMPS[c]) = 2
        /\ sent = <<ServerEnv(c, "0.1", JNone, JNone, CONNECTIONS[c], "")>>
        /\ ACTIVE_SESSIONS # EmptyDict

\* C19: when the config defines every name the handler reads, the
\* registration request of an unregistered connection for an identifier
\* held by nobody is accepted if the identifier is a string of 3 to 30
\* characters, the first alphanumeric and the others alphanumeric,
\* underscore or hyphen, and rejected with a 0.2 otherwise.
C19_GrammarDecides ==
    [][\A c \in Conns \ DOMAIN CONNECTIONS :
          (FrameStep(c) /\ config_complete) =>
              \A x \in RegisterIds(c) \ DOMAIN CLIENTS :
                  \/ IF Grammar(x)
                     THEN Accepted(c, x)
                     ELSE Rejected(c, x, {"invalid_format", "bad_identifier"})
                  \/ ~OnMessage(c, Frame("ok", "0", x, JNone, JNone, TRUE, 0))]_vars

\* C20: a frame of non-zero type that the handler of an unregistered
\* connection takes in within the rate limit is forwarded to nobody and
\* changes none of CLIENTS, CONNECTIONS and ACTIVE_SESSIONS; the connection
\* stays open and unregistered.
C20_UnregisteredDiscarded ==
    [][\A c \in Conns \ DOMAIN CONNECTIONS :
          FrameStep(c) =>
              \A f \in RelayFrames(c) :
                  \/ /\ UNCHANGED <<CLIENTS, CONNECTIONS, ACTIVE_SESSIONS>>
                     /\ pc'[c] = "open"
                     /\ transport'[c] = "open"
                     /\ \A i \in DOMAIN sent' : sent'[i].from = 0
                  \/ ~OnMessage(c, f)]_vars

\* C21: while the transport of connection c is open and its frame is within
\* the message rate limit, no inbound frame makes the handler of c leave
\* its receive loop and run the cleanup.
C21_OnlyRateLimitEnds ==
    [][\A c \in Conns :
          (FrameStep(c) /\ transport[c] = "open") => pc'[c] # "done"]_vars

\* The frame fails a structural check or the payload check of its type.
Invalid(c, f) ==
    \/ f.shape # "ok"
    \/ ~validation_passed(f, Get(CONNECTIONS, c, JNone))

\* C22: a frame that is not valid JSON, fails a structural check or fails
\* the payload check of its type is dropped: it is not forwarded, the sender
\* is sent nothing but a 0.2 (registration) or a 17 (file request), no
\* notification is scheduled, and CLIENTS, CONNECTIONS and ACTIVE_SESSIONS
\* are unchanged.
C22_InvalidDropped ==
    [][\A c \in Conns :
          FrameStep(c) =>
              \A f \in HostileFramesOf(c) :
                  \/ /\ UNCHANGED <<CLIENTS, CONNECTIONS, ACTIVE_SESSIONS, tasks>>
                     /\ pc'[c] # "relaying"
                     /\ \A i \in DOMAIN sent' :
                            /\ sent'[i].to = c
                            /\ \/ sent'[i].type = "0.2" /\ f.type = "0"
                               \/ sent'[i].type = "17" /\ f.type = "12"
                  \/ ~Invalid(c, f)
                  \/ ~OnMessage(c, f)]_vars

\* The step is the cleanup of a connection that was closed, by its peer or
\* by the rate limiter.
CleanupStep ==
    \E c \in Conns :
        pc[c] # "done" /\ pc'[c] = "done" /\ transport[c] # "open"

\* The step resumes a handler whose forward of a type-2 or type-9 frame
\* succeeded.
SessionRelayStep ==
    \E c \in Conns :
        /\ pc[c] = "relaying" /\ pc'[c] = "open"
        /\ hlocal[c].message.type \in {"2", "9"}
        /\ sent' = forwarded(c)

\* The step accepts a registration.
AcceptedStep ==
    \E c \in Conns \ DOMAIN CONNECTIONS :
        /\ pc[c] = "open" /\ pc'[c] = "open"
        /\ Len(sent') = 1
        /\ sent'[1].type = "0.1" /\ sent'[1].to = c
        /\ CLIENTS' = Put(CLIENTS, sent'[1].identifier, c)
        /\ CONNECTIONS' = Put(CONNECTIONS, c, sent'[1].identifier)

\* C23: ACTIVE_SESSIONS changes only in the step after a successful forward
\* of a type-2 or type-9 frame and in the cleanup of a closed connection;
\* CLIENTS and CONNECTIONS change only in an accepted registration and in
\* the cleanup of a closed connection.
C23_MutationPoints ==
    [][/\ ACTIVE_SESSIONS' # ACTIVE_SESSIONS => (SessionRelayStep \/ CleanupStep)
       /\ (CLIENTS' # CLIENTS \/ CONNECTIONS' # CONNECTIONS) =>
              (AcceptedStep \/ CleanupStep)]_vars

\* C24: when the handler of connection c resumes from the forward of a
\* frame and the target's connection has closed meanwhile, the frame is
\* handed to no transport, ACTIVE_SESSIONS and the registries are not
\* modified whatever the frame's type, and c, if still open, is sent
\* exactly one -1 envelope naming the frame's targetId.
C24_SendFailureAsAbsent ==
    [][\A c \in Conns :
          (/\ pc[c] = "relaying" /\ pc'[c] = "open"
           /\ transport[hlocal[c].target_websocket] # "open") =>
              /\ UNCHANGED <<ACTIVE_SESSIONS, CLIENTS, CONNECTIONS, paired>>
              /\ \A i \in DOMAIN sent' : sent'[i].from = 0
              /\ transport[c] = "open" =>
                     sent' = <<ServerEnv(c, "-1", hlocal[c].message.targetId,
                                         JNone, JNone, "unavailable")>>]_vars

\* After two registrations and one frame, the sender of that frame has
\* just been told that its target, which closed during the forward and is
\* still registered, is unavailable; no session was recorded.
C24_Witness ==
    \E c \in DOMAIN CONNECTIONS :
        /\ Len(sent) = 1
        /\ sent[1].type = "-1" /\ sent[1].to = c
        /\ sent[1].targetId \in DOMAIN CLIENTS
        /\ transport[CLIENTS[sent[1].targetId]] # "open"
        /\ ACTIVE_SESSIONS = EmptyDict
        /\ nframes = 3

\* What the handler of connection c hands to the target when the forward
\* of the frame it holds succeeds.
HeldFrame(c) == <<RelayEnv(hlocal[c].target_websocket, c, hlocal[c].message)>>

\* C25: frames of one sender reach a target's transport in the order in
\* which they were received.  The handler of a sender holds one frame at a
\* time: the frame it takes in when it starts a forward is the one it holds;
\* while it holds a frame it takes in no other; it resumes only by handing
\* the held frame to the target once or by the failure of the send; and
\* nothing is handed over on behalf of a sender but the frame it holds.
\* So a frame received later is handed to the target later, whatever the
\* handlers of other senders do in between.
C25_PerSenderFifo ==
    [][\A c \in Conns :
          /\ (pc[c] = "open" /\ pc'[c] = "relaying") =>
                 /\ hlocal'[c].message \in OrderFramesOf(c)
                 /\ OnMessage(c, hlocal'[c].message)
          /\ pc[c] = "relaying" =>
                 \/ /\ pc'[c] = "relaying"
                    /\ hlocal'[c] = hlocal[c]
                    /\ MESSAGE_TIMESTAMPS'[c] = MESSAGE_TIMESTAMPS[c]
                 \/ /\ pc'[c] = "open"
                    /\ \/ sent' = HeldFrame(c)
                       \/ \A i \in DOMAIN sent' : sent'[i].from # c
          /\ (\E i \in DOMAIN sent' : sent'[i].from = c) =>
                 /\ pc[c] = "relaying"
                 /\ sent' = HeldFrame(c)]_vars

\* ali's accept was forwarded to bob at time 0, bob relayed an accept to
\* itself, and now, two seconds later, ali's encrypted message is handed
\* to bob's transport.
C25_Witness ==
    /\ {IdA, IdB} \in paired
    /\ {IdB} \in paired
    /\ now = 2
    /\ \E c \in DOMAIN CONNECTIONS :
           /\ CONNECTIONS[c] = IdA
           /\ IdB \in DOMAIN CLIENTS
           /\ sent = <<RelayEnv(CLIENTS[IdB], c,
                                Frame("ok", "8", JNone, IdB, IdA, TRUE, 0))>>

\* Connection a keeps its registration in the step.
StaysRegistered(a) ==
    a \in DOMAIN CONNECTIONS =>
        /\ a \in DOMAIN CONNECTIONS'
        /\ CONNECTIONS'[a] = CONNECTIONS[a]
        /\ CONNECTIONS[a] \in DOMAIN CLIENTS'
        /\ CLIENTS'[CONNECTIONS[a]] = a

\* C26: the closing of connection b, whether the step closes its transport
\* or runs its cleanup, moves no other handler and unregisters no other
\* connection; and a sender whose forward ends, with success or because
\* the target has closed, is back in its receive loop, still registered.
C26_CloseIsLocal ==
    [][/\ \A b \in Conns :
             (transport'[b] # transport[b] \/ (pc[b] # "done" /\ pc'[b] = "done")) =>
                 \A a \in Conns \ {b} :
                     /\ pc'[a] = pc[a]
                     /\ transport'[a] = transport[a]
                     /\ StaysRegistered(a)
       /\ \A a \in Conns :
             (pc[a] = "relaying" /\ pc'[a] # "relaying") =>
                 /\ pc'[a] = "open"
                 /\ transport'[a] = transport[a]
                 /\ StaysRegistered(a)]_vars

\* bob accepted ali and went away; the cleanup of bob's connection has
\* scheduled ali's notification, and ali's handler has since processed a
\* frame for bob and answered it with -1.
C26_Witness ==
    \E a \in DOMAIN CONNECTIONS :
        /\ CONNECTIONS[a] = IdA
        /\ pc[a] = "open" /\ transport[a] = "open"
        /\ IdB \notin DOMAIN CLIENTS
        /\ \E i \in DOMAIN tasks : tasks[i].to = a /\ tasks[i].senderId = IdB
        /\ sent = <<ServerEnv(a, "-1", IdB, JNone, JNone, "unavailable")>>

\* C27: the step in which the handler of connection c finishes removes c
\* from MESSAGE_TIMESTAMPS and CONNECTIONS and its identifier from CLIENTS
\* and from the keys of ACTIVE_SESSIONS, whatever the state of the peer's
\* transport, and hands the peer nothing: the type-9 notification is at most
\* one new task; and the step that runs a task, whether its send succeeds or
\* fails, changes no registry, session, window or handler.
C27_CleanupNeverWaits ==
    [][/\ \A c \in Conns :
             (pc[c] # "done" /\ pc'[c] = "done") =>
                 /\ c \notin DOMAIN MESSAGE_TIMESTAMPS'
                 /\ c \notin DOMAIN CONNECTIONS'
                 /\ c \in DOMAIN CONNECTIONS =>
                        /\ CONNECTIONS[c] \notin DOMAIN CLIENTS'
                        /\ CONNECTIONS[c] \notin DOMAIN ACTIVE_SESSIONS'
                 /\ \A i \in DOMAIN sent' : sent'[i].type # "9"
                 /\ \/ tasks' = tasks
                    \/ \E t \in {tasks'[Len(tasks')]} :
                          /\ tasks' = Append(tasks, t)
                          /\ t.type = "9"
                          /\ t.senderId = CONNECTIONS[c]
       /\ Len(tasks') < Len(tasks) =>
             UNCHANGED <<CLIENTS, CONNECTIONS, ACTIVE_SESSIONS,
                         MESSAGE_TIMESTAMPS, pc, transport, hlocal>>]_vars

\* A connection in a session has been cleaned up and its notification is
\* scheduled for a peer whose transport has closed: the task will fail.
C27_Witness ==
    \E i \in DOMAIN tasks :
        /\ transport[tasks[i].to] # "open"
        /\ tasks[i].senderId \notin DOMAIN CLIENTS
        /\ tasks[i].senderId \notin DOMAIN ACTIVE_SESSIONS
        /\ tasks[i].senderId # tasks[i].targetId
        /\ \E c \in Conns : pc[c] = "done" /\ c # tasks[i].to

\* C28: the handler of a connection only moves forward.  A new connection
\* is rejected by the IP gate or enters the receive loop; a rejected one
\* never opens and never registers, it only finishes; one in the loop stays
\* there until it is closed and cleaned up.  A registered connection keeps
\* its identifier, and CLIENTS keeps pointing to it, in every step but its
\* own cleanup; only a connection whose handler is in the loop or leaving it
\* is registered; a finished one is in neither registry, and the next
\* connection on its slot starts unregistered.
C28_ForwardOnly ==
    [][\A c \in Conns :
          /\ pc[c] = "new" => pc'[c] \in {"new", "open", "closing_ip"}
          /\ pc[c] = "closing_ip" =>
                 /\ pc'[c] \in {"closing_ip", "done"}
                 /\ transport'[c] # "open"
          /\ pc[c] \in {"open", "relaying"} =>
                 pc'[c] \in {"open", "relaying", "closing_rl", "done"}
          /\ pc[c] = "closing_rl" => pc'[c] \in {"closing_rl", "done"}
          /\ pc[c] = "done" => pc'[c] \in {"done", "open", "closing_ip"}
          /\ (c \in DOMAIN CONNECTIONS /\ pc'[c] # "done") => StaysRegistered(c)
          /\ c \in DOMAIN CONNECTIONS' =>
                 pc'[c] \in {"open", "relaying", "closing_rl"}
          /\ (pc'[c] = "done" \/ pc[c] = "done") =>
                 /\ c \notin DOMAIN CONNECTIONS'
                 /\ \A x \in DOMAIN CLIENTS' : CLIENTS'[x] # c]_vars

\* One connection is being turned away by the IP gate, one is registered
\* and in its receive loop, and one that was registered and in a session
\* has been closed and cleaned up.
C28_Witness ==
    /\ \E c \in Conns : pc[c] = "closing_ip"
    /\ \E c \in DOMAIN CONNECTIONS : pc[c] = "open"
    /\ \E c \in Conns : pc[c] = "done"
    /\ tasks # <<>>

\* unregister_client(websocket) called in the current state changes nothing
\* and schedules nothing.
UnregisterIsNoOp(websocket) ==
    /\ unreg_sessions(websocket) = ACTIVE_SESSIONS
    /\ unreg_clients(websocket) = CLIENTS
    /\ unreg_connections(websocket) = CONNECTIONS
    /\ unreg_tasks(websocket) = <<>>

\* C29: unregister_client is idempotent.  Called for a connection that is
\* not registered it changes no shared state and schedules no notification;
\* and in the state that the cleanup of a connection leaves behind, which is
\* the state after one call, a second call for that connection changes
\* nothing and schedules nothing.
C29_UnregisterIdempotent ==
    /\ [](\A c \in Conns \ DOMAIN CONNECTIONS : UnregisterIsNoOp(c))
    /\ [][\A c \in Conns :
             (pc[c] # "done" /\ pc'[c] = "done") => UnregisterIsNoOp(c)']_vars

\* The cleanup of a connection that was registered and in a session has
\* just run: its identifier is free again, its notification is scheduled
\* and other sessions are still recorded.
C29_Witness ==
    \E c \in Conns :
        /\ pc[c] = "done"
        /\ sent = <<>>
        /\ Own(c) \notin DOMAIN CLIENTS
        /\ \E i \in DOMAIN tasks : tasks[i].senderId = Own(c)
        /\ ACTIVE_SESSIONS # EmptyDict

\* The session message types, 1 to 17.
SessionTypes == ControlTypes \cup FieldTypes \cup {"12"}

\* C30: whatever a step hands to a target's transport on behalf of a sender
\* is a frame of one of the session message types 1 to 17 that passed the
\* payload checks of its type.
C30_OnlySessionTypesForwarded ==
    \A i \in DOMAIN sent :
        sent[i].from # 0 =>
            /\ sent[i].type \in SessionTypes
            /\ is_valid_string(sent[i].raw.targetId, 30)
            /\ sent[i].raw.fieldsOk

\* C31: every frame of type 0 with an object payload that the handler of an
\* open connection takes in within the rate limit gets exactly one reply,
\* sent to the sender and of type 0.1 or 0.2, and nothing is handed to any
\* other connection; so also for an identifier that is missing, no string,
\* empty or longer than 30 characters.
C31_RegistrationReplied ==
    [][\A c \in Conns :
          FrameStep(c) =>
              \A f \in RegisterFramesOf(c) :
                  \/ /\ Len(sent') = 1
                     /\ sent'[1].to = c
                     /\ sent'[1].from = 0
                     /\ sent'[1].type \in {"0.1", "0.2"}
                  \/ ~OnMessage(c, f)]_vars

\* C32: the message rate check precedes parsing and validation.  A frame
\* that arrives when fewer than MAX_MESSAGES_PER_CONNECTION frames are in
\* the connection's window is recorded in the window, whether it is then
\* dropped as malformed or invalid, ignored as sent while unregistered,
\* answered or relayed; a frame that arrives when the window is full, valid
\* or not, is answered with -2 and the connection is closed.
C32_EveryFrameCounts ==
    [][\A c \in Conns :
          (nframes' = nframes + 1 /\ pc[c] = "open" /\ StepOf(c)) =>
              LET window == Prune(Get(MESSAGE_TIMESTAMPS, c, <<>>), now,
                                  MESSAGE_WINDOW_SECONDS)
              IN  \A f \in WindowFramesOf(c) :
                      \/ IF Len(window) >= MAX_MESSAGES_PER_CONNECTION
                         THEN /\ sent' = <<ServerEnv(c, "-2", JNone, JNone,
                                                     JNone, "rate_limit")>>
                              /\ pc'[c] = "closing_rl"
                              /\ transport'[c] = "closed_1008"
                         ELSE /\ c \in DOMAIN MESSAGE_TIMESTAMPS'
                              /\ MESSAGE_TIMESTAMPS'[c] = Append(window, now)
                      \/ ~OnMessage(c, f)]_vars

\* An attempt from an address all of whose earlier connections are closed,
\* MAX_CONNECTIONS_PER_IP of them accepted within the window, is rejected.
StillRejected ==
    \A c \in Conns :
        (/\ pc[c] \in {"new", "done"}
         /\ pc'[c] \in {"open", "closing_ip"}
         /\ \A d \in Conns :
                remote_address(d) = remote_address(c) =>
                    pc[d] \in {"new", "done", "closing_ip"}
         /\ Len(AcceptedInWindow(remote_address(c))) >= MAX_CONNECTIONS_PER_IP)
            => pc'[c] = "closing_ip"

\* The cleanup of a connection removes its own message window and leaves
\* CONNECTION_ATTEMPTS alone; a frame changes neither CONNECTION_ATTEMPTS
\* nor the message window of another connection.
ScopesIndependent ==
    \A c \in Conns :
        /\ (pc[c] \in {"open", "relaying", "closing_rl"} /\ pc'[c] = "done") =>
               /\ UNCHANGED CONNECTION_ATTEMPTS
               /\ c \notin DOMAIN MESSAGE_TIMESTAMPS'
        /\ (nframes' = nframes + 1 /\ pc[c] = "open" /\ StepOf(c)) =>
               /\ UNCHANGED CONNECTION_ATTEMPTS
               /\ \A d \in Conns \ {c} :
                      /\ d \in DOMAIN MESSAGE_TIMESTAMPS'
                             <=> d \in DOMAIN MESSAGE_TIMESTAMPS
                      /\ Get(MESSAGE_TIMESTAMPS', d, <<>>)
                             = Get(MESSAGE_TIMESTAMPS, d, <<>>)

\* C33: disconnecting frees the connection's message window and not the
\* address's connection window: after MAX_CONNECTIONS_PER_IP connections of
\* one address were accepted and closed within CONNECTION_WINDOW_SECONDS, a
\* further attempt from it is rejected; cleanup does not modify
\* CONNECTION_ATTEMPTS, and a frame changes neither CONNECTION_ATTEMPTS nor
\* another connection's MESSAGE_TIMESTAMPS entry.
C33_ScopesSeparate ==
    [][StillRejected /\ ScopesIndependent]_vars

\* The step resumes the handler of c after its type-9 frame was handed to
\* the target's transport.
EndRelayed(c) ==
    /\ pc[c] = "relaying" /\ pc'[c] = "open"
    /\ hlocal[c].message.type = "9"
    /\ Len(sent') = 1 /\ sent'[1].from = c

\* C34: a forwarded type-9 frame from A to B removes ACTIVE_SESSIONS[A]
\* exactly if it is B and ACTIVE_SESSIONS[B] exactly if it is A, and adds or
\* changes no entry; when neither entry points to the other, ACTIVE_SESSIONS
\* is unchanged.
C34_EndOnlyOwnSession ==
    [][\A c \in Conns :
          EndRelayed(c) =>
              LET A == hlocal[c].sender_id
                  B == hlocal[c].message.targetId
              IN  /\ \A k \in DOMAIN ACTIVE_SESSIONS :
                         IF \/ k = A /\ ACTIVE_SESSIONS[A] = B
                            \/ k = B /\ ACTIVE_SESSIONS[B] = A
                         THEN k \notin DOMAIN ACTIVE_SESSIONS'
                         ELSE /\ k \in DOMAIN ACTIVE_SESSIONS'
                              /\ ACTIVE_SESSIONS'[k] = ACTIVE_SESSIONS[k]
                  /\ DOMAIN ACTIVE_SESSIONS' \subseteq DOMAIN ACTIVE_SESSIONS
                  /\ (/\ Get(ACTIVE_SESSIONS, A, JNone) # B
                      /\ Get(ACTIVE_SESSIONS, B, JNone) # A) =>
                         UNCHANGED ACTIVE_SESSIONS]_vars

\* A type-9 frame has just been forwarded to a client whose session is with
\* somebody else than the sender, and that session is still recorded.
C34_Witness ==
    \E c \in DOMAIN CONNECTIONS :
        /\ Len(sent) = 1
        /\ sent[1].from = c /\ sent[1].type = "9"
        /\ pc[c] = "open"
        /\ sent[1].targetId \in DOMAIN ACTIVE_SESSIONS
        /\ ACTIVE_SESSIONS[sent[1].targetId] \notin {CONNECTIONS[c], sent[1].targetId}
        /\ CONNECTIONS[c] \notin DOMAIN ACTIVE_SESSIONS

\* C35: the cleanup of the connection registered as X removes from
\* ACTIVE_SESSIONS only the entry of X and entries that point to X, and
\* changes no entry it keeps.
C35_CleanupOwnSessionOnly ==
    [][\A c \in DOMAIN CONNECTIONS :
          (pc[c] # "done" /\ pc'[c] = "done") =>
              LET X == CONNECTIONS[c]
              IN  \A P \in DOMAIN ACTIVE_SESSIONS :
                      \/ P = X
                      \/ ACTIVE_SESSIONS[P] = X
                      \/ /\ P \in DOMAIN ACTIVE_SESSIONS'
                         /\ ACTIVE_SESSIONS'[P] = ACTIVE_SESSIONS[P]]_vars

\* Every identifier in ACTIVE_SESSIONS, key or value, is registered.
SessionsRegistered ==
    \A k \in DOMAIN ACTIVE_SESSIONS :
        k \in DOMAIN CLIENTS /\ ACTIVE_SESSIONS[k] \in DOMAIN CLIENTS

\* A handler that resumes from a forward and writes ACTIVE_SESSIONS records
\* only a target that is registered at that moment.
UpdateNamesRegistered ==
    \A c \in Conns :
        (pc[c] = "relaying" /\ pc'[c] = "open"
           /\ ACTIVE_SESSIONS' # ACTIVE_SESSIONS
           /\ hlocal[c].message.type = "2") =>
            /\ hlocal[c].message.targetId \in DOMAIN CLIENTS'
            /\ CLIENTS'[hlocal[c].message.targetId] = hlocal[c].target_websocket

\* C36: in every state between handler steps each identifier that appears
\* in ACTIVE_SESSIONS, as key or as value, is registered in CLIENTS; and a
\* session update made when a handler resumes from a forward never records
\* a target whose connection was cleaned up during the suspension.
C36_SessionsNameRegistered ==
    []SessionsRegistered /\ [][UpdateNamesRegistered]_vars

\* C37: the cleanup of the connection registered as X schedules a type-9
\* notification naming X for connection c only if c is registered and an
\* accept was relayed between X and the identifier of c with no end relayed
\* between them since, both connections being those that relayed it.
C37_NotifiedOnlyCurrentPeer ==
    [][\A d \in DOMAIN CONNECTIONS :
          (pc[d] # "done" /\ pc'[d] = "done") =>
              \A c \in Conns :
                  NewNotifications(CONNECTIONS[d], c) # {} =>
                      /\ c \in DOMAIN CONNECTIONS
                      /\ {CONNECTIONS[d], CONNECTIONS[c]} \in paired]_vars

\* C38: no identifier is its own entry in ACTIVE_SESSIONS, and no
\* notification is scheduled or sent that tells a client of its own
\* disconnection.
C38_NoSelfSession ==
    /\ \A k \in DOMAIN ACTIVE_SESSIONS : ACTIVE_SESSIONS[k] # k
    /\ \A i \in DOMAIN tasks : tasks[i].targetId # tasks[i].senderId
    /\ \A i \in DOMAIN sent :
           (sent[i].from = 0 /\ sent[i].type = "9") =>
               sent[i].targetId # sent[i].senderId

\* Every registered connection has a running handler and a message window.
RegisteredAreRunning ==
    \A c \in DOMAIN CONNECTIONS :
        /\ c \in DOMAIN MESSAGE_TIMESTAMPS
        /\ pc[c] \in {"open", "relaying", "closing_rl"}

\* A connection enters CONNECTIONS only in a step of its own handler's
\* receive loop.
RegisteredWhileRunning ==
    \A c \in Conns :
        (c \notin DOMAIN CONNECTIONS /\ c \in DOMAIN CONNECTIONS') =>
            /\ pc[c] = "open" /\ pc'[c] = "open"
            /\ c \in DOMAIN MESSAGE_TIMESTAMPS
            /\ c \in DOMAIN MESSAGE_TIMESTAMPS'

\* C39: every connection in CONNECTIONS has an entry in MESSAGE_TIMESTAMPS
\* and a handler that has passed the IP gate and not yet run its cleanup;
\* a registration is inserted only for such a connection.
C39_RegistryOnlyRunning ==
    []RegisteredAreRunning /\ [][RegisteredWhileRunning]_vars

\* A connection is being turned away by the IP gate, unregistered and
\* without a message window, while a connection of the same address that
\* was accepted holds the identifier the rejected one would ask for.
C39_Witness ==
    \E c \in DOMAIN CONNECTIONS, d \in Conns \ DOMAIN CONNECTIONS :
        /\ pc[d] = "closing_ip"
        /\ d \notin DOMAIN MESSAGE_TIMESTAMPS
        /\ remote_address(d) = remote_address(c)
        /\ CONNECTIONS[c] = Own(d)
        /\ c \in DOMAIN MESSAGE_TIMESTAMPS
        /\ pc[c] = "open"

====
